---- MODULE Spec2Model ----
(***************************************************************************)
(* A model of the raft-test harness: the Notify knob (watch aggregator and *)
(* NextAcquired / NextLost), the Cluster builder (knob hooks and           *)
(* bootstrapCluster), Shutdown and Other.                                  *)
(*                                                                         *)
(* Node indexes are 0-based as in the Go code.  Time is counted in units   *)
(* of the 25ms poll interval.  SpecNotify is the Notify knob of a cluster  *)
(* that has been built; SpecCluster is the call of Cluster; SpecShutdown   *)
(* is the shutdown function Cluster returns, with its clock in seconds;    *)
(* SpecOther is the function Other.                                        *)
(***************************************************************************)
EXTENDS Integers, Sequences, FiniteSets, TLC

\* ------------------------------------------------------------------ bounds
MaxNodes == 3
MaxSignals == 3
MaxKnobs == 2
MaxTimeout == 1
MaxRafts == 4
MaxIndexes == 3
MaxShutdowns == 2

\* A call lasts at most its timeout for the waits on k.ch and the timeout
\* again for the confirmation wait.
MaxTime == 2 * MaxTimeout

\* -------------------------------------------------------- program constants
NotifyChCap == 1000
PollInterval == 1
ErrorsCap == 3
ShutdownCeiling == 5

VARIABLES
    \* the engines and their notification channels
    n,           \* len(cluster.nodes)
    raftState,   \* raft.State() of each node
    notifyChs,   \* the buffered content of each k.notifyChs[i]
    closed,      \* whether k.notifyChs[i] has been closed
    nsig,        \* number of signals the engines have sent so far
    election,    \* the acquisitions since the last return ("after", "aftermany":
                 \* since the call in progress has its result): "none", one "intime"
                 \* (before the deadline of the call) or "late", or "many"
    \* the watch goroutine
    cases,       \* the select cases: the nodes whose channel is still watched
    wpc,         \* "select" | "send" | "done"
    pending,     \* the leadershipChange being sent on k.ch
    \* the test goroutine inside nextMatching
    tpc,         \* "idle" | "next" | "confirm" | "returned" | "failed"
    acquired,    \* the polarity asked for
    timeout,     \* the local variable timeout of nextMatching
    start,       \* the local variable start of nextMatching
    info,        \* the last leadershipChange received from k.ch
    wstart,      \* when the confirmation wait began
    nextPoll,    \* when the confirmation wait evaluates its check next
    result,      \* the index returned
    origTimeout, \* the timeout the call was given
    discarded,   \* the polarities of the events discarded during the call
    obs,         \* the last engine state observed by the confirmation wait
    failover,    \* progress of the scenario: leader found, shut down, found lost
    now,         \* the clock: time elapsed since the current call began
    \* the call of Cluster
    m,           \* len(knobs)
    cpc,         \* "start" | "pre" | "connect" | "bootstrap" | "newRaft" | "post"
                 \* | "done" | "failed"
    nodes,       \* cluster.nodes
    hooks,       \* number of hooks run in the current loop over knobs
    visited,     \* the nodes the current loop over cluster.nodes has been through
    servers,     \* the local variable servers of bootstrapCluster
    peers,       \* what each transport has been connected to
    writes,      \* the configurations written by raft.BootstrapCluster, per node
    rafts,       \* the local variable rafts of Cluster
    log,         \* the hooks run so far, each with what existed when it ran
    \* the calls of Shutdown
    spc,         \* "idle" | "wait" | "returned" | "failed"
    fatal,       \* what Shutdown failed the test for: "none" | "timeout" | "error"
    down,        \* whether each engine has shut down
    futures,     \* futures[i]: "none" | "pending" | "nil" | "err"
    workers,     \* the goroutine of each future: "none" | "running" | "exited"
    errors,      \* the buffered content of the channel errors
    received,    \* the iterations of the collecting loop that are over
    clock,       \* seconds since time.After was called
    iterStart,   \* the clock when the current select began
    shutdowns,   \* the calls of the shutdown function so far
    \* the call of Other
    opc,         \* "call" | "done"
    indexes,     \* the argument indexes
    other        \* the index returned

notifyVars == <<n, raftState, notifyChs, closed, nsig, election, cases, wpc, pending,
                tpc, acquired, timeout, start, info, wstart, nextPoll, result,
                origTimeout, discarded, obs, failover, now>>

clusterVars == <<m, cpc, nodes, hooks, visited, servers, peers, writes, rafts, log>>

shutdownVars == <<spc, fatal, down, futures, workers, errors, received, clock, iterStart,
                  shutdowns>>

otherVars == <<opc, indexes, other>>

vars == <<notifyVars, clusterVars, shutdownVars, otherVars>>

Nodes == 0 .. (n - 1)

NoEvent == [On |-> -1, Acquired |-> FALSE, from |-> -1, ok |-> FALSE]
NoObs == [node |-> -1, leader |-> FALSE]
NoFailover == [stage |-> "start", leader |-> -1]

\* ------------------------------------------------------------ the engines

\* A buffered send on node i's notification channel.
SendSignal(i, v) ==
    /\ Len(notifyChs[i]) < NotifyChCap
    /\ nsig < MaxSignals
    /\ nsig' = nsig + 1
    /\ notifyChs' = [notifyChs EXCEPT ![i] = Append(@, v)]

engineFrame == UNCHANGED <<clusterVars, shutdownVars, otherVars, n, cases, wpc, pending, tpc, acquired, timeout, start, info,
                           wstart, nextPoll, result, origTimeout, discarded, obs,
                           failover, now>>

\* Node i wins an election and signals true.
Acquire(i) ==
    /\ raftState[i] = "Follower"
    /\ \A j \in Nodes : raftState[j] # "Leader"
    /\ SendSignal(i, TRUE)
    /\ raftState' = [raftState EXCEPT ![i] = "Leader"]
    /\ election' = IF tpc = "returned"
                      THEN (IF election \in {"after", "aftermany"} THEN "aftermany"
                                                                  ELSE "after")
                   ELSE IF election # "none" THEN "many"
                   ELSE IF tpc = "idle" \/ now < origTimeout THEN "intime"
                   ELSE "late"
    /\ UNCHANGED closed
    /\ engineFrame

\* Node i steps down and signals false.
Lose(i) ==
    /\ raftState[i] = "Leader"
    /\ SendSignal(i, FALSE)
    /\ raftState' = [raftState EXCEPT ![i] = "Follower"]
    /\ UNCHANGED <<closed, election>>
    /\ engineFrame

\* Node i is shut down: a leader signals false, and the channel is closed.
ShutdownNode(i) ==
    /\ raftState[i] # "Shutdown"
    /\ IF raftState[i] = "Leader"
          THEN SendSignal(i, FALSE)
          ELSE UNCHANGED <<nsig, notifyChs>>
    /\ raftState' = [raftState EXCEPT ![i] = "Shutdown"]
    /\ closed' = [closed EXCEPT ![i] = TRUE]
    /\ UNCHANGED <<election>>
    /\ engineFrame

\* ---------------------------------------------------- NotifyKnob.watch

\* append(cases[:i], cases[i+1:]...), p = i + 1
RemoveCase(s, p) == SubSeq(s, 1, p - 1) \o SubSeq(s, p + 1, Len(s))

\* A receive case of reflect.Select is ready when the channel holds a value
\* or is closed.
Ready(c) == notifyChs[c] # <<>> \/ closed[c]

\* The value of the On field for the case chosen at (1-based) position p.
SelectedIndex(p) == p - 1

\* A loop that goes on until no channel is watched.
LoopUntilNoCase(c) == Len(c) > 0

\* for len(cases) > 1
LoopContinues(c) == Len(c) > 1

watchFrame == UNCHANGED <<clusterVars, shutdownVars, otherVars, n, raftState, closed, nsig, election, tpc, acquired, timeout,
                          start, info, wstart, nextPoll, result,
                          origTimeout, discarded, obs, failover, now>>

\* One iteration of the loop up to the send: reflect.Select, and the removal
\* of a closed channel.
WatchSelect ==
    /\ wpc = "select"
    /\ LoopContinues(cases)
    /\ \E p \in 1 .. Len(cases) :
          LET c == cases[p] IN
          /\ Ready(c)
          /\ IF notifyChs[c] # <<>>
                THEN /\ pending' = [On |-> SelectedIndex(p),
                                    Acquired |-> Head(notifyChs[c]),
                                    from |-> c, ok |-> TRUE]
                     /\ notifyChs' = [notifyChs EXCEPT ![c] = Tail(@)]
                     /\ cases' = cases
                ELSE /\ pending' = [On |-> SelectedIndex(p), Acquired |-> FALSE,
                                    from |-> c, ok |-> FALSE]
                     /\ cases' = RemoveCase(cases, p)
                     /\ UNCHANGED notifyChs
    /\ wpc' = "send"
    /\ watchFrame

\* The loop condition fails.
WatchExit ==
    /\ wpc = "select"
    /\ ~LoopContinues(cases)
    /\ wpc' = "done"
    /\ UNCHANGED <<cases, pending, notifyChs>>
    /\ watchFrame

\* ------------------------------------------- NextAcquired / NextLost

\* A nextMatching that takes the first event whatever its polarity.
MatchesAny(i, a) == TRUE

\* The test of nextMatching on a received leadershipChange.
Matches(i, a) == i.Acquired = a

\* A "lost" branch that trusts the signal and does not look at the state.
LostCheckTrustSignal(st) == TRUE

\* The check function of the "lost" branch.
LostCheck(st) == st # "Leader"

\* The condition WaitLeader waits for.
WaitLeaderCheck(st) == st = "Leader"

\* The polling wait fails once the timeout it was given has elapsed.
WaitExpired(elapsed, t) == elapsed >= t

\* The timeout handed to the confirmation wait.
ConfirmBudget == timeout

testFrame == UNCHANGED <<clusterVars, shutdownVars, otherVars, n, raftState, closed, nsig, cases>>
callFrame == UNCHANGED failover

\* The test calls NextAcquired(t) (a = TRUE) or NextLost(t) (a = FALSE) and
\* blocks in the select of next().
StartCall(a, t) ==
    /\ tpc = "idle"
    /\ tpc' = "next"
    /\ acquired' = a
    /\ timeout' = t
    /\ origTimeout' = t
    /\ start' = now
    /\ UNCHANGED <<now, election, discarded, obs, info, wstart, nextPoll, result,
                   notifyChs, wpc, pending>>
    /\ callFrame
    /\ testFrame

\* The scenario of a failover, as the test goes through it: a NextAcquired
\* that returns L, then L shut down and a NextLost that returns L.
FailoverStep ==
    IF failover.stage = "start" /\ acquired
       THEN [stage |-> "acquired", leader |-> result]
    ELSE IF /\ failover.stage = "acquired"
            /\ ~acquired
            /\ result = failover.leader
            /\ raftState[result] = "Shutdown"
       THEN [stage |-> "lost", leader |-> result]
    ELSE [stage |-> "off", leader |-> -1]

\* The call has returned info.On to the test; its locals are gone.
Return ==
    /\ tpc = "returned"
    /\ tpc' = "idle"
    /\ failover' = FailoverStep
    /\ acquired' = FALSE
    /\ timeout' = 0
    /\ origTimeout' = 0
    /\ start' = 0
    /\ now' = 0
    /\ election' = IF election = "after" THEN "intime"
                   ELSE IF election = "aftermany" THEN "many"
                   ELSE "none"
    /\ discarded' = {}
    /\ obs' = NoObs
    /\ info' = NoEvent
    /\ wstart' = 0
    /\ nextPoll' = 0
    /\ result' = -1
    /\ UNCHANGED <<notifyChs, wpc, pending>>
    /\ testFrame

\* next() receives from k.ch, which completes the send of watch; a
\* non-matching event is discarded and its wait deducted from the timeout.
NextRecv ==
    /\ tpc = "next"
    /\ wpc = "send"
    /\ wpc' = "select"
    /\ info' = pending
    /\ discarded' = IF Matches(pending, acquired) THEN discarded
                                                   ELSE discarded \cup {pending.Acquired}
    /\ IF Matches(pending, acquired)
          THEN /\ tpc' = "confirm"
               /\ wstart' = now
               /\ nextPoll' = now
               /\ UNCHANGED <<timeout, start>>
          ELSE /\ timeout' = timeout - (now - start)
               /\ start' = now
               /\ UNCHANGED <<tpc, wstart, nextPoll>>
    /\ UNCHANGED <<acquired, origTimeout, result, obs, now, election, notifyChs,
                   pending>>
    /\ callFrame
    /\ testFrame

\* The timer of next() fires: t.Fatalf.
NextTimeout ==
    /\ tpc = "next"
    /\ now >= start + timeout
    /\ tpc' = "failed"
    /\ UNCHANGED <<acquired, timeout, start, info, wstart, nextPoll, result,
                   origTimeout, discarded, obs, now, election, notifyChs, wpc,
                   pending>>
    /\ callFrame
    /\ testFrame

\* One evaluation of the confirmation wait on k.rafts[info.On]: return the
\* index, fail the test, or sleep for one poll interval.
ConfirmPoll ==
    /\ tpc = "confirm"
    /\ now >= nextPoll
    /\ LET st == raftState[info.On]
           good == IF acquired THEN WaitLeaderCheck(st) ELSE LostCheck(st)
       IN /\ obs' = [node |-> info.On, leader |-> (st = "Leader")]
          /\ IF good
                THEN /\ tpc' = "returned"
                     /\ result' = info.On
                     /\ UNCHANGED nextPoll
                ELSE IF WaitExpired(now - wstart, ConfirmBudget)
                THEN /\ tpc' = "failed"
                     /\ UNCHANGED <<result, nextPoll>>
                ELSE /\ nextPoll' = now + PollInterval
                     /\ UNCHANGED <<tpc, result>>
    /\ UNCHANGED <<acquired, timeout, start, info, wstart, origTimeout, discarded, now,
                   election, notifyChs, wpc, pending>>
    /\ callFrame
    /\ testFrame

\* ------------------------------------------------------------- the clock

\* A step that is taken before any more time passes: a ready select of watch,
\* a rendezvous on k.ch, an expired timer, a poll that is due.
Urgent ==
    \/ wpc = "select" /\ (~LoopContinues(cases) \/ \E p \in 1 .. Len(cases) : Ready(cases[p]))
    \/ wpc = "send" /\ tpc = "next"
    \/ tpc = "next" /\ now >= start + timeout
    \/ tpc = "confirm" /\ now >= nextPoll

\* Time passes while a call is blocked.
Tick ==
    /\ tpc \in {"next", "confirm"}
    /\ ~Urgent
    /\ now < MaxTime
    /\ now' = now + 1
    /\ UNCHANGED <<clusterVars, shutdownVars, otherVars, n, raftState, notifyChs, closed, nsig, election, cases,
                   wpc, pending, tpc, acquired, timeout, start, info, wstart, nextPoll, result,
                   origTimeout, discarded, obs, failover>>

\* ------------------------------------------------------------ Cluster

Digits == <<"0", "1", "2", "3", "4", "5", "6", "7", "8", "9">>

\* strconv.Itoa of a non-negative int: its decimal digits.
RECURSIVE Itoa(_)
Itoa(i) == IF i < 10 THEN <<Digits[i + 1]>>
                     ELSE Itoa(i \div 10) \o <<Digits[(i % 10) + 1]>>

Nil == [fsm |-> -1, node |-> -1]
NoNode == [Addr |-> <<>>, WithPeers |-> FALSE, Bootstrap |-> FALSE]

\* The dependencies of node i: its transport has address Itoa(i) and
\* implements raft.WithPeers, and the node takes part in the bootstrap.
newDefaultNode(i) == [Addr |-> Itoa(i), WithPeers |-> TRUE, Bootstrap |-> TRUE]

\* A loop over knobs that runs the hooks last to first.
NextKnobReversed(done) == m - done

\* for _, knob := range knobs: the knob whose hook runs after done hooks.
NextKnob(done) == done + 1

\* An inner loop that connects to every other node, flagged or not.
PeerAnyNode(a, b) == b # a

\* The inner loop of bootstrapCluster connects node1 = a to node2 = b.
Peer(a, b) == ~(b = a \/ ~nodes[b].Bootstrap)

\* A second loop that writes the configuration to every node.
SkipsNoNode(i) == FALSE

\* The second loop of bootstrapCluster passes over node i.
SkipsBootstrap(i) == ~nodes[i].Bootstrap

\* A second loop that goes on to the next node after a failed write.
BootstrapErrorIgnored(ok) == FALSE

\* if err != nil after raft.BootstrapCluster, which returned no error (ok)
\* or an error.
BootstrapFailed(ok) == ~ok

\* An instance built from the dependencies of the first node.
newRaftOnFirstNode(fsm, node) == [fsm |-> fsm, node |-> 0]

\* newRaft(fsm, node): the instance raft.NewRaft builds from the state
\* machine and the dependencies it is given.
newRaft(fsm, node) == [fsm |-> fsm, node |-> node]

\* What a hook records: the knob, the instances constructed by then,
\* whether bootstrapCluster has begun, and the argument of a post hook.
HookEntry(op, k, arg) ==
    [op |-> op, knob |-> k,
     built |-> Cardinality({i \in Nodes : rafts[i] # Nil}),
     booted |-> (servers # <<>> \/ visited # {} \/ \E i \in Nodes : writes[i] # <<>>),
     arg |-> arg]

clusterFrame == UNCHANGED <<notifyVars, shutdownVars, otherVars>>

\* n := len(fsms) and the loop that fills cluster.nodes.
NewDefaultNodes ==
    /\ cpc = "start"
    /\ nodes' = [i \in Nodes |-> newDefaultNode(i)]
    /\ cpc' = IF m = 0 THEN "connect" ELSE "pre"
    /\ UNCHANGED <<m, hooks, visited, servers, peers, writes, rafts, log>>
    /\ clusterFrame

\* knob.pre(cluster): the hook may opt nodes out of the bootstrap (boot) and
\* replace transports by ones that do or do not implement WithPeers (wp).
PreHook(boot, wp) ==
    /\ cpc = "pre"
    /\ nodes' = [i \in Nodes |-> [nodes[i] EXCEPT !.Bootstrap = boot[i],
                                                  !.WithPeers = wp[i]]]
    /\ log' = Append(log, HookEntry("pre", NextKnob(hooks), Nil))
    /\ hooks' = IF hooks + 1 = m THEN 0 ELSE hooks + 1
    /\ cpc' = IF hooks + 1 = m THEN "connect" ELSE "pre"
    /\ UNCHANGED <<m, visited, servers, peers, writes, rafts>>
    /\ clusterFrame

\* One iteration of the first loop of bootstrapCluster, for node1 = i: the
\* server is appended, then node1 is connected to the other bootstrapping
\* nodes, which fails the test when its transport cannot connect.
ConnectNode(i) ==
    /\ cpc = "connect"
    /\ i \notin visited
    /\ LET others == {j \in Nodes : Peer(i, j)}
           last == visited \cup {i} = Nodes
       IN IF ~nodes[i].Bootstrap
             THEN /\ visited' = IF last THEN {} ELSE visited \cup {i}
                  /\ cpc' = IF last THEN "bootstrap" ELSE "connect"
                  /\ UNCHANGED <<servers, peers>>
             ELSE /\ servers' = Append(servers, [ID |-> Itoa(i), Address |-> nodes[i].Addr])
                  /\ IF others # {} /\ ~nodes[i].WithPeers
                        THEN /\ cpc' = "failed"
                             /\ UNCHANGED <<visited, peers>>
                        ELSE /\ peers' = [peers EXCEPT ![i] =
                                  @ \cup {[addr |-> nodes[j].Addr, trans |-> j] : j \in others}]
                             /\ visited' = IF last THEN {} ELSE visited \cup {i}
                             /\ cpc' = IF last THEN "bootstrap" ELSE "connect"
    /\ UNCHANGED <<m, nodes, hooks, writes, rafts, log>>
    /\ clusterFrame

\* One iteration of the second loop of bootstrapCluster, for node i:
\* raft.BootstrapCluster writes the configuration, or fails (ok = FALSE).
BootstrapNode(i, ok) ==
    /\ cpc = "bootstrap"
    /\ i \notin visited
    /\ LET last == visited \cup {i} = Nodes
       IN IF SkipsBootstrap(i)
             THEN /\ ok
                  /\ visited' = IF last THEN {} ELSE visited \cup {i}
                  /\ cpc' = IF last THEN "newRaft" ELSE "bootstrap"
                  /\ UNCHANGED writes
             ELSE IF ~BootstrapFailed(ok)
             THEN /\ writes' = IF ok THEN [writes EXCEPT ![i] = Append(@, servers)]
                                    ELSE writes
                  /\ visited' = IF last THEN {} ELSE visited \cup {i}
                  /\ cpc' = IF last THEN "newRaft" ELSE "bootstrap"
             ELSE /\ cpc' = "failed"
                  /\ UNCHANGED <<visited, writes>>
    /\ UNCHANGED <<m, nodes, hooks, servers, peers, rafts, log>>
    /\ clusterFrame

\* One iteration of the loop over fsms: newRaft(fsms[i], cluster.nodes[i])
\* for the next i, which returns an instance or an error (ok = FALSE).
NewRaft(ok) ==
    /\ cpc = "newRaft"
    /\ LET i == Cardinality({j \in Nodes : rafts[j] # Nil})
       IN IF ok
             THEN /\ rafts' = [rafts EXCEPT ![i] = newRaft(i, i)]
                  /\ cpc' = IF i + 1 < n THEN "newRaft"
                            ELSE IF m = 0 THEN "done" ELSE "post"
             ELSE /\ cpc' = "failed"
                  /\ UNCHANGED rafts
    /\ UNCHANGED <<m, nodes, hooks, visited, servers, peers, writes, log>>
    /\ clusterFrame

\* knob.post(rafts)
PostHook ==
    /\ cpc = "post"
    /\ log' = Append(log, HookEntry("post", NextKnob(hooks), rafts))
    /\ hooks' = IF hooks + 1 = m THEN 0 ELSE hooks + 1
    /\ cpc' = IF hooks + 1 = m THEN "done" ELSE "post"
    /\ UNCHANGED <<m, nodes, visited, servers, peers, writes, rafts>>
    /\ clusterFrame

\* ------------------------------------------------------------ Shutdown

\* A collecting loop that looks at no result.
FailsNever(err) == FALSE

\* if err != nil on a value received from errors.
Fails(err) == err # "nil"

\* A timer started anew by every select.
DeadlinePerSelect(callStart, selectStart) == selectStart + ShutdownCeiling

\* timeout := time.After(5 * time.Second), before the collecting loop: when
\* the timer fires, for a call whose timer was set at callStart and whose
\* current select began at selectStart.
Deadline(callStart, selectStart) == callStart + ShutdownCeiling

shutdownFrame == UNCHANGED <<notifyVars, clusterVars, otherVars>>

\* Shutdown(t, rafts) up to the collecting loop: one shutdown request per
\* engine, the channel errors, one goroutine per future, the timer.  The
\* shutdown function may be called again after it returned; what an engine
\* that has already shut down answers to r.Shutdown() is up to the engine:
\* its future may be complete, with or without error, or pending.
ShutdownCall ==
    /\ spc = "idle" \/ (spc = "returned" /\ shutdowns < MaxShutdowns)
    /\ futures' \in {f \in [Nodes -> {"pending", "nil", "err"}] :
                        \A i \in Nodes : ~down[i] => f[i] = "pending"}
    /\ workers' = [i \in Nodes |-> "running"]
    /\ errors' = <<>>
    /\ received' = 0
    /\ clock' = 0
    /\ iterStart' = 0
    /\ shutdowns' = shutdowns + 1
    /\ spc' = "wait"
    /\ UNCHANGED <<fatal, down>>
    /\ shutdownFrame

\* The shutdown of engine i completes, without error (e = "nil") or with
\* one.
FutureDone(i, e) ==
    /\ futures[i] = "pending"
    /\ futures' = [futures EXCEPT ![i] = e]
    /\ down' = [down EXCEPT ![i] = @ \/ (e = "nil")]
    /\ UNCHANGED <<spc, fatal, workers, errors, received, clock, iterStart, shutdowns>>
    /\ shutdownFrame

\* The goroutine of future i has its result and room in errors to send it.
CanDeliver(i) ==
    /\ workers[i] = "running"
    /\ futures[i] \in {"nil", "err"}
    /\ Len(errors) < ErrorsCap

\* The goroutine of future i: errors <- future.Error(), and its exit.
WorkerDeliver(i) ==
    /\ CanDeliver(i)
    /\ errors' = Append(errors, futures[i])
    /\ workers' = [workers EXCEPT ![i] = "exited"]
    /\ UNCHANGED <<spc, fatal, down, futures, received, clock, iterStart, shutdowns>>
    /\ shutdownFrame

\* case err := <-errors of the select, and the end of the iteration.
Receive ==
    /\ spc = "wait"
    /\ errors # <<>>
    /\ errors' = Tail(errors)
    /\ IF Fails(Head(errors))
          THEN /\ spc' = "failed"
               /\ fatal' = "error"
               /\ UNCHANGED <<received, iterStart>>
          ELSE /\ received' = received + 1
               /\ iterStart' = clock
               /\ spc' = IF received + 1 = n THEN "returned" ELSE "wait"
               /\ UNCHANGED fatal
    /\ UNCHANGED <<down, futures, workers, clock, shutdowns>>
    /\ shutdownFrame

\* case <-timeout of the select.
ShutdownTimeout ==
    /\ spc = "wait"
    /\ clock >= Deadline(0, iterStart)
    /\ spc' = "failed"
    /\ fatal' = "timeout"
    /\ UNCHANGED <<down, futures, workers, errors, received, clock, iterStart, shutdowns>>
    /\ shutdownFrame

\* A second passes while Shutdown is blocked in its select with no goroutine
\* able to run.
ShutdownTick ==
    /\ spc = "wait"
    /\ errors = <<>>
    /\ \A i \in Nodes : ~CanDeliver(i)
    /\ clock < Deadline(0, iterStart)
    /\ clock' = clock + 1
    /\ UNCHANGED <<spc, fatal, down, futures, workers, errors, received, iterStart, shutdowns>>
    /\ shutdownFrame

\* ------------------------------------------------------------ Other

\* An inner loop that looks at the first index only.
DifferentFromFirst(j, idx) == idx = <<>> \/ idx[1] # j

\* The inner loop of Other: different is true when no index equals j.
Different(j, idx) == \A k \in 1 .. Len(idx) : idx[k] # j

\* The outer loop of Other from j on, over a list of len instances.
RECURSIVE OtherFrom(_, _, _)
OtherFrom(j, len, idx) ==
    IF j >= len THEN -1
    ELSE IF Different(j, idx) THEN j
    ELSE OtherFrom(j + 1, len, idx)

Other(len, idx) == OtherFrom(0, len, idx)

\* Other(rafts, indexes...) on a list of n instances.
CallOther ==
    /\ opc = "call"
    /\ other' = Other(n, indexes)
    /\ opc' = "done"
    /\ UNCHANGED indexes
    /\ UNCHANGED <<notifyVars, clusterVars, shutdownVars>>

\* ------------------------------------------------------- specification

\* Notify(), pre() and post() have run: one open, empty channel per node,
\* watch started over all of them, no engine a leader yet.
NotifyReady ==
    /\ raftState = [i \in Nodes |-> "Follower"]
    /\ notifyChs = [i \in Nodes |-> <<>>]
    /\ closed = [i \in Nodes |-> FALSE]
    /\ nsig = 0
    /\ election = "none"
    /\ cases = [p \in 1 .. n |-> p - 1]
    /\ wpc = "select"
    /\ pending = NoEvent
    /\ tpc = "idle"
    /\ acquired = FALSE
    /\ timeout = 0
    /\ start = 0
    /\ info = NoEvent
    /\ wstart = 0
    /\ nextPoll = 0
    /\ result = -1
    /\ origTimeout = 0
    /\ discarded = {}
    /\ obs = NoObs
    /\ failover = NoFailover
    /\ now = 0

NotifyStart == n \in 1 .. MaxNodes /\ NotifyReady

\* Cluster has been called with n state machines and m knobs and has not
\* run yet.
ClusterStart ==
    /\ m \in 0 .. MaxKnobs
    /\ cpc = "start"
    /\ nodes = [i \in Nodes |-> NoNode]
    /\ hooks = 0
    /\ visited = {}
    /\ servers = <<>>
    /\ peers = [i \in Nodes |-> {}]
    /\ writes = [i \in Nodes |-> <<>>]
    /\ rafts = [i \in Nodes |-> Nil]
    /\ log = <<>>

\* The shutdown function has not been called.
ShutdownStart ==
    /\ spc = "idle"
    /\ fatal = "none"
    /\ down = [i \in Nodes |-> FALSE]
    /\ futures = [i \in Nodes |-> "none"]
    /\ workers = [i \in Nodes |-> "none"]
    /\ errors = <<>>
    /\ received = 0
    /\ clock = 0
    /\ iterStart = 0
    /\ shutdowns = 0

\* Other has not been called.
OtherStart ==
    /\ opc = "done"
    /\ indexes = <<>>
    /\ other = -1

NextNotify ==
    \/ \E i \in Nodes : Acquire(i)
    \/ \E i \in Nodes : Lose(i)
    \/ \E i \in Nodes : ShutdownNode(i)
    \/ WatchSelect
    \/ WatchExit
    \/ \E a \in BOOLEAN, t \in 1 .. MaxTimeout : StartCall(a, t)
    \/ Return
    \/ NextRecv
    \/ NextTimeout
    \/ ConfirmPoll
    \/ Tick

InitNotify == NotifyStart /\ ClusterStart /\ m = 0 /\ ShutdownStart /\ OtherStart

SpecNotify == InitNotify /\ [][NextNotify]_vars

\* The goroutines run when they can, and time passes.
SpecNotifyFair ==
    /\ SpecNotify
    /\ WF_vars(WatchSelect) /\ WF_vars(WatchExit)
    /\ WF_vars(NextRecv) /\ WF_vars(NextTimeout) /\ WF_vars(ConfirmPoll)
    /\ WF_vars(Return) /\ WF_vars(Tick)

NextCluster ==
    \/ NewDefaultNodes
    \/ \E boot \in [Nodes -> BOOLEAN], wp \in [Nodes -> BOOLEAN] : PreHook(boot, wp)
    \/ \E i \in Nodes : ConnectNode(i)
    \/ \E i \in Nodes, ok \in BOOLEAN : BootstrapNode(i, ok)
    \/ \E ok \in BOOLEAN : NewRaft(ok)
    \/ PostHook

InitCluster == NotifyStart /\ ClusterStart /\ ShutdownStart /\ OtherStart

SpecCluster == InitCluster /\ [][NextCluster]_vars

NextShutdown ==
    \/ ShutdownCall
    \/ \E i \in Nodes, e \in {"nil", "err"} : FutureDone(i, e)
    \/ \E i \in Nodes : WorkerDeliver(i)
    \/ Receive
    \/ ShutdownTimeout
    \/ ShutdownTick

InitShutdown ==
    n \in 1 .. MaxRafts /\ NotifyReady /\ ClusterStart /\ m = 0 /\ ShutdownStart /\ OtherStart

SpecShutdown == InitShutdown /\ [][NextShutdown]_vars

\* The goroutines and the test run when they can.
SpecShutdownFair ==
    /\ SpecShutdown
    /\ \A i \in 0 .. (MaxRafts - 1) : WF_vars(i \in Nodes /\ WorkerDeliver(i))
    /\ WF_vars(Receive)
    /\ WF_vars(ShutdownTimeout)

\* The arguments of Other: a list of n instances and up to MaxIndexes
\* indexes, in or out of range, repeated or not.
InitOther ==
    /\ n \in 0 .. MaxRafts
    /\ NotifyReady /\ ClusterStart /\ m = 0 /\ ShutdownStart
    /\ opc = "call"
    /\ indexes \in UNION {[1 .. l -> -1 .. MaxRafts] : l \in 0 .. MaxIndexes}
    /\ other = -1

SpecOther == InitOther /\ [][CallOther]_vars

\* ------------------------------------------------- claims on Notify

\* C1: every event watch puts on the output channel for a received value
\* carries the index of the node whose channel the value came from.
C1_EventCarriesNodeIndex ==
    (wpc = "send" /\ pending.ok) => pending.On = pending.from

\* The one acquisition since the last return is that of a node still leader,
\* signalled before the deadline of the call in progress.
StableLeaderInTime ==
    /\ election = "intime"
    /\ \E ld \in Nodes : raftState[ld] = "Leader"

\* C2: with three nodes, after NextAcquired returned L, L was shut down and
\* NextLost returned L, the next NextAcquired returns the new leader, not L.
C2_FailoverFindsNewLeader ==
    ( /\ n = 3
      /\ failover.stage = "lost"
      /\ tpc \in {"next", "confirm", "returned", "failed"}
      /\ acquired
      /\ nsig = 3
      /\ \A i \in Nodes \ {failover.leader} : raftState[i] # "Shutdown"
      /\ StableLeaderInTime )
    => /\ tpc # "failed"
       /\ tpc = "returned" => (result # failover.leader /\ raftState[result] = "Leader")

\* C3: with one node or three, a NextAcquired returns the index of the
\* node that acquired leadership and signalled it before the deadline, the
\* only signal there has been.
C3_LeaderIsReturned ==
    ( /\ n \in {1, 3}
      /\ tpc \in {"next", "confirm", "returned", "failed"}
      /\ acquired
      /\ nsig = 1
      /\ \A i \in Nodes : raftState[i] # "Shutdown"
      /\ StableLeaderInTime )
    => /\ tpc # "failed"
       /\ tpc = "returned" => raftState[result] = "Leader"

\* C4: every event watch puts on the output channel is a value a node sent;
\* the close of a channel forwards nothing.
C4_ForwardsOnlySentValues ==
    wpc = "send" => pending.ok

\* C5: a call returns the index of the first event of the polarity it asked
\* for; what it received before had the other polarity and was discarded.
C5_ReturnsFirstMatching ==
    /\ tpc \in {"next", "confirm", "returned"} => acquired \notin discarded
    /\ tpc \in {"confirm", "returned"} => info.Acquired = acquired
    /\ tpc = "returned" => result = info.On

C5_Witness ==
    tpc = "returned" /\ discarded # {} /\ acquired

\* C6: a call is over, returned or failed, once its timeout has elapsed
\* since it began.
C6_OneWallClockBudget ==
    tpc \in {"next", "confirm"} => now <= origTimeout

\* C7: a call returns K only after the engine state of node K has been
\* observed, after the event was received, to be what was asked for.
C7_SignalThenConfirm ==
    tpc = "returned" => (obs.node = result /\ obs.leader = acquired)

C7_Witness ==
    tpc = "returned" /\ ~acquired /\ now > wstart

Consumed(c) == Len(notifyChs'[c]) < Len(notifyChs[c])

\* C17: watch leaves its loop only with at most one channel still watched;
\* an iteration begins, and a signal is taken from a channel, only with two
\* or more watched, so what the last watched channel holds stays there; with
\* one node no iteration ever begins.
C17_LoopEndsAtOneCase ==
    /\ [](wpc = "done" => Len(cases) <= 1)
    /\ [](n = 1 => wpc # "send" /\ pending = NoEvent)
    /\ [][ /\ (wpc = "select" /\ wpc' = "done") => Len(cases) <= 1
           /\ (wpc = "select" /\ wpc' = "send") => Len(cases) >= 2
           /\ \A c \in Nodes : Consumed(c) => Len(cases) >= 2
           /\ Len(cases) <= 1 => cases' = cases ]_vars

C17_Witness ==
    /\ wpc = "done" /\ n = 3 /\ Len(cases) = 1
    /\ notifyChs[cases[1]] # <<>>

\* The events forwarded for a channel are its signals in the order they
\* were sent, each taken from the channel as it is forwarded.
FifoStep ==
    (wpc = "select" /\ wpc' = "send" /\ pending'.ok) =>
        LET c == pending'.from IN
        /\ notifyChs[c] # <<>>
        /\ pending'.Acquired = Head(notifyChs[c])
        /\ notifyChs' = [notifyChs EXCEPT ![c] = Tail(@)]

\* The test goes on receiving what watch sends and does not fail.
TestKeepsConsuming == []<>(wpc # "send") /\ [](tpc # "failed")

\* C18: the signals of a node are forwarded in the order sent and once
\* each, and, the test consuming what is sent, a signal held by a channel
\* while two or more channels are watched, and open, is forwarded in the
\* end.
C18_PerNodeFifoNoLoss ==
    /\ [][FifoStep]_vars
    /\ TestKeepsConsuming =>
          \A i \in 0 .. (MaxNodes - 1) :
              ( /\ i \in Nodes /\ notifyChs[i] # <<>>
                /\ Len(cases) >= 2 /\ wpc # "done"
                /\ Cardinality({c \in Nodes : ~closed[c]}) >= 2 )
                  ~> (i \in Nodes /\ notifyChs[i] = <<>>)

\* C19: once every node has shut down and closed its channel, watch ends,
\* whether the test makes another call or not.
C19_WatchEndsAfterShutdown ==
    (\A i \in Nodes : closed[i]) ~> (wpc = "done")

\* ----------------------------------------------------- claims on Cluster

IsPre(e) == e.op = "pre"
IsPost(e) == e.op = "post"
PreEntries == SelectSeq(log, IsPre)
PostEntries == SelectSeq(log, IsPost)

\* C8: the pre hooks run once each in the order of the knobs, before the
\* bootstrap and before any instance is constructed; the post hooks run once
\* each in that order after all instances are constructed, each on the full
\* list of instances.
C8_HooksInOrder ==
    /\ Len(PreEntries) <= m
    /\ Len(PostEntries) <= m
    /\ \A j \in 1 .. Len(PreEntries) :
          /\ PreEntries[j].knob = j
          /\ PreEntries[j].built = 0
          /\ ~PreEntries[j].booted
    /\ \A j \in 1 .. Len(PostEntries) :
          /\ PostEntries[j].knob = j
          /\ PostEntries[j].built = n
          /\ DOMAIN PostEntries[j].arg = Nodes
          /\ \A i \in Nodes : PostEntries[j].arg[i] # Nil
    /\ \A a, b \in 1 .. Len(log) : (IsPost(log[a]) /\ IsPre(log[b])) => b < a
    /\ (servers # <<>> \/ \E i \in Nodes : rafts[i] # Nil) => Len(PreEntries) = m
    /\ cpc \in {"connect", "bootstrap", "newRaft", "post", "done"} => Len(PreEntries) = m
    /\ cpc = "done" => Len(PostEntries) = m

C8_Witness ==
    cpc = "done" /\ m >= 2 /\ n >= 2 /\ Len(log) = 2 * m

Flagged == {i \in Nodes : nodes[i].Bootstrap}
Membership == {[ID |-> Itoa(i), Address |-> nodes[i].Addr] : i \in Flagged}
Written == {i \in Nodes : writes[i] # <<>>}
BootstrapBegun == cpc \in {"bootstrap", "newRaft", "post", "done"} \/ Written # {}

\* C9: the membership is computed once, after the pre hooks, with one entry
\* per node flagged for bootstrap and none for the others; each flagged node
\* gets one bootstrap write, of that membership, and the others get none.
C9_OneMembershipForAll ==
    /\ cpc \in {"start", "pre"} => (servers = <<>> /\ Written = {})
    /\ BootstrapBegun =>
          /\ {servers[j] : j \in 1 .. Len(servers)} = Membership
          /\ Len(servers) = Cardinality(Flagged)
    /\ \A i \in Written :
          /\ i \in Flagged
          /\ Len(writes[i]) = 1
          /\ writes[i][1] = servers
    /\ cpc \in {"newRaft", "post", "done"} => Written = Flagged

C9_Witness ==
    cpc = "newRaft" /\ n = 3 /\ Cardinality(Flagged) = 2 /\ Written = Flagged

Connected(a, b) == [addr |-> nodes[b].Addr, trans |-> b] \in peers[a]

\* C10: before the first bootstrap write the flagged nodes are connected to
\* each other in both directions, a node that is not flagged is connected to
\* none and none to it, and with no knobs all nodes are connected.
C10_FullMeshBeforeBootstrap ==
    /\ \A a, b \in Nodes : Connected(a, b) => (a # b /\ a \in Flagged /\ b \in Flagged)
    /\ BootstrapBegun =>
          \A a, b \in Flagged : a # b => Connected(a, b)
    /\ (BootstrapBegun /\ m = 0) =>
          \A a, b \in Nodes : a # b => Connected(a, b)

C10_Witness ==
    cpc = "bootstrap" /\ Written = {} /\ n = 3 /\ Cardinality(Flagged) = 2

Built == {i \in Nodes : rafts[i] # Nil}

\* C11: the instances are constructed in the order of the state machines,
\* instance i from state machine i and the dependencies of node i, flagged
\* for bootstrap or not; a call that succeeds returns one instance per state
\* machine, n of them at the indexes 0 to n - 1.
C11_OneInstancePerFsm ==
    /\ DOMAIN rafts = Nodes
    /\ Built = 0 .. (Cardinality(Built) - 1)
    /\ \A i \in Built : rafts[i] = [fsm |-> i, node |-> i]
    /\ cpc \in {"post", "done"} => Built = Nodes

C11_Witness ==
    cpc = "done" /\ n = 3 /\ Cardinality(Flagged) = 1 /\ Built = Nodes

\* C12: once the test has been failed nothing more happens; the step that
\* fails it writes no configuration and constructs no instance; the loop
\* over the state machines is reached only with every flagged node written,
\* and the post hooks and the return only with every instance constructed;
\* a failed call has run no post hook.
C12_FailureAborts ==
    /\ [](cpc = "failed" => PostEntries = <<>>)
    /\ [][ /\ cpc # "failed"
           /\ cpc' = "failed" =>
                 (writes' = writes /\ rafts' = rafts /\ log' = log /\ peers' = peers)
           /\ (cpc = "bootstrap" /\ cpc' # "failed") =>
                 \A i \in Flagged \ visited : i \in visited' \/ cpc' = "newRaft" =>
                     writes'[i] # <<>>
           /\ (cpc = "newRaft" /\ cpc' \in {"post", "done"}) =>
                 \A i \in Nodes : rafts'[i] # Nil ]_vars

C12_Witness ==
    /\ cpc = "failed" /\ n = 3
    /\ \/ Written # {} /\ Written # Flagged /\ Built = {}
       \/ Built # {}

\* ---------------------------------------------------- claims on Shutdown

\* C13: a call of Shutdown returns only when the shutdown of every engine
\* has completed without error; while an engine has reported an error the
\* call has not returned, and a call that received the error has failed the
\* test for it.
C13_NoErrorSwallowed ==
    /\ spc = "returned" => \A i \in Nodes : futures[i] = "nil"
    /\ spc = "returned" => (received = n /\ fatal = "none")
    /\ fatal = "error" => (spc = "failed" /\ \E i \in Nodes : futures[i] = "err")

C13_Witness ==
    spc = "failed" /\ fatal = "error" /\ n = MaxRafts /\ received = n - 1

\* C15: a call of Shutdown is over, returned or failed, once 5 seconds have
\* passed since the timer was set, however many results it received and
\* whenever it received them.
C15_OneCeilingForTheWait ==
    spc = "wait" => clock <= ShutdownCeiling

C15_Witness ==
    /\ spc = "failed" /\ fatal = "timeout" /\ clock = ShutdownCeiling
    /\ received >= 2 /\ iterStart >= 2

\* C20: the goroutine of every future whose shutdown has completed ends up
\* having sent its result and exited, whether the call returned or failed.
C20_WorkersExit ==
    \A i \in 0 .. (MaxRafts - 1) :
        (i \in Nodes /\ futures[i] \in {"nil", "err"})
            ~> (i \in Nodes /\ workers[i] = "exited")

\* ------------------------------------------------------- claims on Other

Excluded == {indexes[k] : k \in 1 .. Len(indexes)}

\* C16: Other returns an index of the list that is not among the given
\* ones when there is one, and -1 when, and only when, there is none.
C16_OtherIndex ==
    opc = "done" =>
        IF Nodes \ Excluded = {}
           THEN other = -1
           ELSE other \in Nodes \ Excluded

C16_Witness ==
    /\ opc = "done" /\ n = 3 /\ Len(indexes) = 2
    /\ 0 \in Excluded /\ 1 \in Excluded /\ other = 2
====
